---- MODULE Spec2Model ----
(***************************************************************************)
(* Model of the configuration transpiler AST (package transpiler):        *)
(* the node heap, the Loader (NewAST / load / loadMap), Clone,             *)
(* ShallowClone, Hash / Hash64With, Apply, Lookup and Insert.              *)
(*                                                                         *)
(* Go strings are sequences of one-character strings, Go pointers are     *)
(* indexes into the heap (0 is the nil Node), Go slices are sequences of   *)
(* heap indexes.                                                           *)
(***************************************************************************)
EXTENDS Integers, Sequences, FiniteSets, TLC

\* Op applied to the value v: a local binding of v.
With(v, Op(_)) == Op(v)

\* ------------------------------------------------------------------------
\* Strings
\* ------------------------------------------------------------------------

selectorSep == "."

conditionKey == <<"c", "o", "n", "d", "i", "t", "i", "o", "n">>

\* The characters used by the model, in ascending byte order.
ByteOrder == <<"!", "$", "+", "-", ".", "0", "1", "2", "3", "4", "5", "6", "7",
               "8", "9", "a", "b", "c", "d", "e", "f", "i", "n", "o", "t", "x",
               "y", "z", "{", "}">>

Ord(ch) == CHOOSE i \in 1..Len(ByteOrder) : ByteOrder[i] = ch

RECURSIVE StrLessFrom(_, _, _)
StrLessFrom(a, b, i) ==
    IF i > Len(b) THEN FALSE
    ELSE IF i > Len(a) THEN TRUE
    ELSE IF a[i] = b[i] THEN StrLessFrom(a, b, i + 1)
    ELSE Ord(a[i]) < Ord(b[i])

\* Go's < on strings: bytewise lexicographic.
StrLess(a, b) == StrLessFrom(a, b, 1)

RECURSIVE SplitFrom(_, _, _)
SplitFrom(s, i, cur) ==
    IF i > Len(s) THEN <<cur>>
    ELSE IF s[i] = selectorSep THEN <<cur>> \o SplitFrom(s, i + 1, <<>>)
    ELSE SplitFrom(s, i + 1, Append(cur, s[i]))

\* strings.Split(s, selectorSep)
Split(s) == SplitFrom(s, 1, <<>>)

splitPath(s) == IF s = <<>> THEN <<>> ELSE Split(s)

Digits == <<"0", "1", "2", "3", "4", "5", "6", "7", "8", "9">>

IsDigit(ch) == \E i \in 1..10 : Digits[i] = ch

DigitVal(ch) == (CHOOSE i \in 1..10 : Digits[i] = ch) - 1

RECURSIVE DigitsVal(_, _, _)
DigitsVal(s, i, acc) ==
    IF i > Len(s) THEN acc ELSE DigitsVal(s, i + 1, acc * 10 + DigitVal(s[i]))

\* strconv.Atoi: an optional sign followed by one or more decimal digits.
AtoiDigits(body, neg) ==
    IF Len(body) = 0 \/ \E i \in 1..Len(body) : ~IsDigit(body[i])
    THEN [ok |-> FALSE, i |-> 0]
    ELSE [ok |-> TRUE,
          i  |-> IF neg THEN 0 - DigitsVal(body, 1, 0) ELSE DigitsVal(body, 1, 0)]

Atoi(s) ==
    IF Len(s) > 0 /\ s[1] \in {"+", "-"}
    THEN AtoiDigits(SubSeq(s, 2, Len(s)), s[1] = "-")
    ELSE AtoiDigits(s, FALSE)

RECURSIVE ItoaNat(_)
ItoaNat(n) == IF n < 10 THEN <<Digits[n + 1]>>
              ELSE Append(ItoaNat(n \div 10), Digits[(n % 10) + 1])

\* strconv.Itoa
Itoa(n) == IF n < 0 THEN <<"-">> \o ItoaNat(0 - n) ELSE ItoaNat(n)

\* ------------------------------------------------------------------------
\* The node heap
\* ------------------------------------------------------------------------

NIL == 0

NoProcessors == <<"nil">>

NoCondition == <<"nil">>

Dict(nodes, processors) ==
    [kind |-> "Dict", name |-> <<>>, value |-> nodes, processors |-> processors,
     condition |-> NoCondition]

Key(name, val) ==
    [kind |-> "Key", name |-> name, value |-> val, processors |-> NoProcessors,
     condition |-> NoCondition]

List(nodes, processors) ==
    [kind |-> "List", name |-> <<>>, value |-> nodes, processors |-> processors,
     condition |-> NoCondition]

StrVal(val, processors) ==
    [kind |-> "StrVal", name |-> <<>>, value |-> val, processors |-> processors,
     condition |-> NoCondition]

IntVal(val, processors) ==
    [kind |-> "IntVal", name |-> <<>>, value |-> val, processors |-> processors,
     condition |-> NoCondition]

UIntVal(val, processors) ==
    [kind |-> "UIntVal", name |-> <<>>, value |-> val, processors |-> processors,
     condition |-> NoCondition]

\* A FloatVal holds a number of halves: value 3 is the float 1.5.
FloatVal(val, processors) ==
    [kind |-> "FloatVal", name |-> <<>>, value |-> val, processors |-> processors,
     condition |-> NoCondition]

BoolVal(val, processors) ==
    [kind |-> "BoolVal", name |-> <<>>, value |-> val, processors |-> processors,
     condition |-> NoCondition]

ScalarKinds == {"StrVal", "IntVal", "UIntVal", "FloatVal", "BoolVal"}

\* The dynamic type of the Node interface value n.
KindOf(h, n) == IF n = NIL THEN "nil" ELSE h[n].kind

\* new(T): the heap with one more node, and the node's index.
Alloc(h, rec) == [h |-> Append(h, rec), n |-> Len(h) + 1]

SetValue(h, n, val) == [h EXCEPT ![n].value = val]

\* ------------------------------------------------------------------------
\* Find
\* ------------------------------------------------------------------------

RECURSIVE DictFindFrom(_, _, _, _)
DictFindFrom(h, nodes, key, i) ==
    IF i > Len(nodes) THEN [n |-> NIL, ok |-> FALSE, panic |-> FALSE]
    ELSE IF KindOf(h, nodes[i]) # "Key"
         THEN [n |-> NIL, ok |-> FALSE, panic |-> TRUE]
    ELSE IF h[nodes[i]].name = key
         THEN [n |-> nodes[i], ok |-> TRUE, panic |-> FALSE]
    ELSE DictFindFrom(h, nodes, key, i + 1)

\* Dict.Find: the type assertion i.(*Key) panics on a child that is no Key.
DictFind(h, d, key) == DictFindFrom(h, h[d].value, key, 1)

ListFind(h, l, idx) ==
    With(Atoi(idx), LAMBDA a :
    IF ~a.ok THEN [n |-> NIL, ok |-> FALSE, panic |-> FALSE]
    ELSE IF a.i > Len(h[l].value) - 1 \/ a.i < 0
         THEN [n |-> NIL, ok |-> FALSE, panic |-> FALSE]
    ELSE [n |-> h[l].value[a.i + 1], ok |-> TRUE, panic |-> FALSE])

KeyFind(h, k, key) ==
    CASE KindOf(h, h[k].value) = "Dict" -> DictFind(h, h[k].value, key)
      [] KindOf(h, h[k].value) = "List" -> ListFind(h, h[k].value, key)
      [] OTHER -> [n |-> NIL, ok |-> FALSE, panic |-> FALSE]

\* Node.Find; a call on the nil Node panics.
Find(h, n, key) ==
    CASE KindOf(h, n) = "nil"  -> [n |-> NIL, ok |-> FALSE, panic |-> TRUE]
      [] KindOf(h, n) = "Dict" -> DictFind(h, n, key)
      [] KindOf(h, n) = "Key"  -> KeyFind(h, n, key)
      [] KindOf(h, n) = "List" -> ListFind(h, n, key)
      [] OTHER -> [n |-> NIL, ok |-> FALSE, panic |-> FALSE]

\* ------------------------------------------------------------------------
\* Clone and ShallowClone
\* ------------------------------------------------------------------------

RECURSIVE Clone(_, _)
RECURSIVE CloneNodes(_, _, _, _)

\* The loop of Dict.Clone and List.Clone: nil children are skipped.
CloneNodes(h, nodes, i, acc) ==
    IF i > Len(nodes) THEN [h |-> h, nodes |-> acc]
    ELSE IF nodes[i] = NIL THEN CloneNodes(h, nodes, i + 1, acc)
    ELSE With(Clone(h, nodes[i]), LAMBDA c :
              CloneNodes(c.h, nodes, i + 1, Append(acc, c.n)))

\* Clone gone wrong: the node is copied and its children are shared.
CloneSharingChildren(h, n) == Alloc(h, h[n])

Clone(h, n) ==
    CASE h[n].kind = "Dict" ->
            With(CloneNodes(h, h[n].value, 1, <<>>), LAMBDA c :
                 Alloc(c.h, Dict(c.nodes, NoProcessors)))
      [] h[n].kind = "List" ->
            With(CloneNodes(h, h[n].value, 1, <<>>), LAMBDA c :
                 Alloc(c.h, List(c.nodes, NoProcessors)))
      [] h[n].kind = "Key" ->
            IF h[n].value # NIL
            THEN With(Clone(h, h[n].value), LAMBDA c :
                      Alloc(c.h, Key(h[n].name, c.n)))
            ELSE Alloc(h, Key(h[n].name, NIL))
      [] OTHER -> Alloc(h, h[n])

RECURSIVE ShallowClone(_, _)
RECURSIVE ShallowCloneNodes(_, _, _, _)

\* The loop of Dict.ShallowClone: each child (a Key) is copied by its own
\* ShallowClone, which shares the Key's value.
ShallowCloneNodes(h, nodes, i, acc) ==
    IF i > Len(nodes) THEN [h |-> h, nodes |-> acc]
    ELSE IF nodes[i] = NIL THEN ShallowCloneNodes(h, nodes, i + 1, acc)
    ELSE With(ShallowClone(h, nodes[i]), LAMBDA c :
              ShallowCloneNodes(c.h, nodes, i + 1, Append(acc, c.n)))

\* ShallowClone gone wrong: a Dict's copy holds the Keys of the original.
ShallowCloneSharingKeys(h, n) == Alloc(h, h[n])

ShallowClone(h, n) ==
    CASE h[n].kind = "Dict" ->
            With(ShallowCloneNodes(h, h[n].value, 1, <<>>), LAMBDA c :
                 Alloc(c.h, Dict(c.nodes, NoProcessors)))
      [] h[n].kind = "List" ->
            Alloc(h, List(SelectSeq(h[n].value, LAMBDA e : e # NIL), NoProcessors))
      [] h[n].kind = "Key" -> Alloc(h, Key(h[n].name, h[n].value))
      [] OTHER -> Alloc(h, h[n])

\* ------------------------------------------------------------------------
\* The Loader
\* ------------------------------------------------------------------------

\* Native values (what reflect sees) are tagged tuples:
\*   <<"map", f>> with f a function from key strings, <<"slice", seq>>,
\*   <<"string", s>>, <<"int", i>>, <<"uint", u>>, <<"float", halves>>,
\*   <<"bool", b>>, <<"nil">>, and <<"chan">> for a type load does not know.

NoErr == "nil"

ErrUnknownType == "unknown type"

ErrPanic == "panic"

RECURSIVE SortStrings(_)
\* sort.Strings over the key set of a map
SortStrings(S) ==
    IF S = {} THEN <<>>
    ELSE With(CHOOSE a \in S : \A b \in S \ {a} : StrLess(a, b), LAMBDA min :
              <<min>> \o SortStrings(S \ {min}))

\* isDictOrKey gone wrong: every loaded value counts as a Dict or a Key.
isAnyValue(h, n) == TRUE

isDictOrKey(h, n) == KindOf(h, n) \in {"Key", "Dict"}

RECURSIVE walkKnown(_, _, _, _, _)
\* loadMap's "get last known existing node" loop; keys are indexed from 1,
\* so last is lastKnownKeyIdx + 1.
walkKnown(h, keys, i, last, knownNode) ==
    IF i > Len(keys) THEN [last |-> last, knownNode |-> knownNode, panic |-> FALSE]
    ELSE With(Find(h, knownNode, keys[i]), LAMBDA f :
         IF f.panic THEN [last |-> last, knownNode |-> knownNode, panic |-> TRUE]
         ELSE IF ~f.ok
              THEN [last |-> last, knownNode |-> knownNode, panic |-> FALSE]
         ELSE walkKnown(h, keys, i + 1, i, f.n))

\* restDict.value = []Node{&Key{name: name, value: val}}
setSingleKey(h, restDict, name, val) ==
    With(Alloc(h, Key(name, val)), LAMBDA k : SetValue(k.h, restDict, <<k.n>>))

RECURSIVE restChain(_, _, _, _, _)
\* loadMap's "produce remainder" loop for a non-empty restKeys, from the last
\* key down to the first; restDict is the index of the remainder Dict.
restChain(h, restKeys, i, restDict, aValue) ==
    IF i < 1 THEN h
    ELSE IF Len(h[restDict].value) = 0
         THEN restChain(setSingleKey(h, restDict, restKeys[i], aValue),
                        restKeys, i - 1, restDict, aValue)
    ELSE With(Clone(h, restDict), LAMBDA c :
              restChain(setSingleKey(c.h, restDict, restKeys[i], c.n),
                        restKeys, i - 1, restDict, aValue))

\* loadMap's "produce remainder": the heap with the remainder Dict rd filled.
produceRemainder(h, rd, restKeys, aValue) ==
    IF Len(restKeys) = 0
    THEN IF KindOf(h, aValue) = "Dict" THEN SetValue(h, rd, h[aValue].value)
         ELSE IF KindOf(h, aValue) = "Key" THEN SetValue(h, rd, <<h[aValue].value>>)
         ELSE SetValue(h, rd, <<aValue>>)
    ELSE restChain(h, restKeys, Len(restKeys), rd, aValue)

\* loadMap's "attach remainder to last known node": restKey is appended to
\* a Dict, the remainder's children are appended to the Dict of a Key.
attachRemainder(h, knownNode, restKey, restDict) ==
    IF KindOf(h, knownNode) = "Dict"
    THEN SetValue(h, knownNode, Append(h[knownNode].value, restKey))
    ELSE IF KindOf(h, knownNode) = "Key" /\ KindOf(h, h[knownNode].value) = "Dict"
    THEN SetValue(h, h[knownNode].value,
                  h[h[knownNode].value].value \o h[restDict].value)
    ELSE h

\* loadMap's handling of one name whose value aValue is a Dict (or Key).
attachDotted(h, node, name, aValue) ==
    With(Split(name), LAMBDA keys :
    With(walkKnown(h, keys, 1, 1, node), LAMBDA w :
    IF w.panic THEN [h |-> h, err |-> ErrPanic]
    ELSE
    With(Alloc(h, Dict(<<>>, NoProcessors)), LAMBDA rd :
    With(Alloc(produceRemainder(rd.h, rd.n, SubSeq(keys, w.last + 1, Len(keys)),
                                aValue),
               Key(keys[w.last], rd.n)), LAMBDA rk :
    [h |-> attachRemainder(rk.h, w.knownNode, rk.n, rd.n), err |-> NoErr]))))

RECURSIVE load(_, _)
RECURSIVE loadNames(_, _, _, _, _)
RECURSIVE loadElems(_, _, _, _)

\* node.value = append(node.value, &Key{name: name, value: val})
appendKey(h, node, name, val) ==
    With(Alloc(h, Key(name, val)), LAMBDA k :
         SetValue(k.h, node, Append(k.h[node].value, k.n)))

\* The loop of loadMap over the sorted names.
loadNames(h, f, names, i, node) ==
    IF i > Len(names) THEN [h |-> h, n |-> node, err |-> NoErr]
    ELSE With(load(h, f[names[i]]), LAMBDA v :
         IF v.err # NoErr THEN [h |-> v.h, n |-> NIL, err |-> v.err]
         ELSE IF ~isDictOrKey(v.h, v.n)
              THEN loadNames(appendKey(v.h, node, names[i], v.n),
                             f, names, i + 1, node)
         ELSE With(attachDotted(v.h, node, names[i], v.n), LAMBDA a :
              IF a.err # NoErr THEN [h |-> a.h, n |-> NIL, err |-> a.err]
              ELSE loadNames(a.h, f, names, i + 1, node)))

loadMap(h, f) ==
    With(Alloc(h, Dict(<<>>, NoProcessors)), LAMBDA node :
         loadNames(node.h, f, SortStrings(DOMAIN f), 1, node.n))

\* The loop of loadSliceOrArray.
loadElems(h, elems, i, node) ==
    IF i > Len(elems) THEN [h |-> h, n |-> node, err |-> NoErr]
    ELSE With(load(h, elems[i]), LAMBDA v :
         IF v.err # NoErr THEN [h |-> v.h, n |-> NIL, err |-> v.err]
         ELSE loadElems(SetValue(v.h, node, Append(v.h[node].value, v.n)),
                        elems, i + 1, node))

loadSliceOrArray(h, elems) ==
    With(Alloc(h, List(<<>>, NoProcessors)), LAMBDA node :
         loadElems(node.h, elems, 1, node.n))

\* A scalar node is allocated; there is no error.
loadScalar(h, rec) ==
    With(Alloc(h, rec), LAMBDA a : [h |-> a.h, n |-> a.n, err |-> NoErr])

load(h, val) ==
    CASE val[1] = "map"    -> loadMap(h, val[2])
      [] val[1] = "slice"  -> loadSliceOrArray(h, val[2])
      [] val[1] = "string" -> loadScalar(h, StrVal(val[2], NoProcessors))
      [] val[1] = "int"    -> loadScalar(h, IntVal(val[2], NoProcessors))
      [] val[1] = "uint"   -> loadScalar(h, UIntVal(val[2], NoProcessors))
      [] val[1] = "float"  -> loadScalar(h, FloatVal(val[2], NoProcessors))
      [] val[1] = "bool"   -> loadScalar(h, BoolVal(val[2], NoProcessors))
      [] val[1] = "nil"    -> [h |-> h, n |-> NIL, err |-> NoErr]
      [] OTHER             -> [h |-> h, n |-> NIL, err |-> ErrUnknownType]

\* NewAST / loadForNew: the root of the new AST, or the error.
NewAST(h, m) == load(h, <<"map", m>>)

\* ------------------------------------------------------------------------
\* The tree below a node, as a value: what a traversal of the heap sees.
\* ------------------------------------------------------------------------

RECURSIVE TreeOf(_, _)
TreeOf(h, n) ==
    CASE KindOf(h, n) = "nil" -> <<"nil">>
      [] KindOf(h, n) \in {"Dict", "List"} ->
            <<h[n].kind, [i \in 1..Len(h[n].value) |-> TreeOf(h, h[n].value[i])]>>
      [] KindOf(h, n) = "Key" -> <<"Key", h[n].name, TreeOf(h, h[n].value)>>
      [] OTHER -> <<h[n].kind, h[n].value>>

\* ------------------------------------------------------------------------
\* Dict.sort and Insert
\* ------------------------------------------------------------------------

RECURSIVE sortInsertOne(_, _, _)
\* The inner loop of the insertion sort that sort.Slice runs on a short
\* slice: the element at j moves down while it is less than its predecessor.
\* The less function asserts both elements to be *Key and panics otherwise.
sortInsertOne(h, nodes, j) ==
    IF j <= 1 THEN [nodes |-> nodes, panic |-> FALSE]
    ELSE IF KindOf(h, nodes[j]) # "Key" \/ KindOf(h, nodes[j - 1]) # "Key"
         THEN [nodes |-> nodes, panic |-> TRUE]
    ELSE IF StrLess(h[nodes[j]].name, h[nodes[j - 1]].name)
         THEN sortInsertOne(h, [nodes EXCEPT ![j] = nodes[j - 1],
                                             ![j - 1] = nodes[j]], j - 1)
    ELSE [nodes |-> nodes, panic |-> FALSE]

RECURSIVE sortFrom(_, _, _)
sortFrom(h, nodes, i) ==
    IF i > Len(nodes) THEN [nodes |-> nodes, panic |-> FALSE]
    ELSE With(sortInsertOne(h, nodes, i), LAMBDA r :
              IF r.panic THEN r ELSE sortFrom(h, r.nodes, i + 1))

\* Dict.sort gone wrong: the children stay as they are.
sortSkipped(h, d) == [h |-> h, panic |-> FALSE]

\* Dict.sort on the Dict d: the heap with d's children sorted by name.
sort(h, d) ==
    With(sortFrom(h, h[d].value, 2), LAMBDA r :
         [h |-> SetValue(h, d, r.nodes), panic |-> r.panic])

ErrExpectingCollection == "expecting collection"

ErrExpectingDict == "expecting Dict"

ErrExpectingKey == "expecting Key"

\* Insert's step for a part that is not found below a Dict d: a new Key
\* holding an empty Dict is appended to d, d is sorted, the Key is current.
insertNewKey(h, d, part) ==
    With(Alloc(h, Dict(<<>>, NoProcessors)), LAMBDA nd :
    With(Alloc(nd.h, Key(part, nd.n)), LAMBDA nk :
    With(sort(SetValue(nk.h, d, Append(nk.h[d].value, nk.n)), d), LAMBDA s :
         [h |-> s.h, current |-> nk.n,
          err |-> IF s.panic THEN ErrPanic ELSE NoErr])))

\* Insert's step for a part that is not found in the List vt: a new empty
\* Dict is appended to the List and is current.
insertNewElem(h, vt) ==
    With(Alloc(h, Dict(<<>>, NoProcessors)), LAMBDA nd :
         [h |-> SetValue(nd.h, vt, Append(nd.h[vt].value, nd.n)),
          current |-> nd.n, err |-> NoErr])

\* Insert gone wrong: below a Key that holds a scalar or nil the walk goes
\* on in a new Dict that takes the place of the value.
insertMissingBelowScalar(h, current, part) ==
    IF KindOf(h, current) = "Key"
    THEN IF KindOf(h, h[current].value) = "Dict"
         THEN insertNewKey(h, h[current].value, part)
         ELSE IF KindOf(h, h[current].value) = "List"
         THEN insertNewElem(h, h[current].value)
         ELSE With(Alloc(h, Dict(<<>>, NoProcessors)), LAMBDA nd :
                   insertNewKey(SetValue(nd.h, current, nd.n), nd.n, part))
    ELSE IF KindOf(h, current) = "Dict"
    THEN insertNewKey(h, current, part)
    ELSE [h |-> h, current |-> current, err |-> ErrExpectingDict]

\* Insert's switch on current for a part that Find did not find.
insertMissing(h, current, part) ==
    IF KindOf(h, current) = "Key"
    THEN IF KindOf(h, h[current].value) = "Dict"
         THEN insertNewKey(h, h[current].value, part)
         ELSE IF KindOf(h, h[current].value) = "List"
         THEN insertNewElem(h, h[current].value)
         ELSE [h |-> h, current |-> current, err |-> ErrExpectingCollection]
    ELSE IF KindOf(h, current) = "Dict"
    THEN insertNewKey(h, current, part)
    ELSE [h |-> h, current |-> current, err |-> ErrExpectingDict]

RECURSIVE insertWalk(_, _, _, _)
\* The path walk of Insert (the loop over splitPath(to)).
insertWalk(h, parts, i, current) ==
    IF i > Len(parts) THEN [h |-> h, current |-> current, err |-> NoErr]
    ELSE With(Find(h, current, parts[i]), LAMBDA f :
         IF f.panic THEN [h |-> h, current |-> current, err |-> ErrPanic]
         ELSE IF f.ok THEN insertWalk(h, parts, i + 1, f.n)
         ELSE With(insertMissing(h, current, parts[i]), LAMBDA r :
              IF r.err # NoErr THEN r
              ELSE insertWalk(r.h, parts, i + 1, r.current)))

RECURSIVE dupIndex(_, _, _, _)
\* Insert's search for the duplicate key: the first index whose child is a
\* Key named name, or 0.
dupIndex(h, nodes, name, i) ==
    IF i > Len(nodes) THEN 0
    ELSE IF KindOf(h, nodes[i]) = "Key" /\ h[nodes[i]].name = name THEN i
    ELSE dupIndex(h, nodes, name, i + 1)

\* Insert's removal of the duplicate key: the last child takes its slot.
removeDup(h, nodes, name) ==
    With(dupIndex(h, nodes, name, 1), LAMBDA i :
         IF i = 0 THEN nodes
         ELSE SubSeq([nodes EXCEPT ![i] = nodes[Len(nodes)]], 1, Len(nodes) - 1))

\* d.value = &Dict{[]Node{node}, nil}
wrapInDict(h, d, node) ==
    With(Alloc(h, Dict(<<node>>, NoProcessors)), LAMBDA nd :
         [h |-> SetValue(nd.h, d, nd.n), err |-> NoErr])

\* Insert's "adding key to existing dictionary": the duplicate is removed,
\* the key is appended, the Dict is sorted.
addKey(h, dValue, node) ==
    With(sort(SetValue(h, dValue,
                       Append(removeDup(h, h[dValue].value, h[node].name), node)),
              dValue), LAMBDA s :
         [h |-> s.h, err |-> IF s.panic THEN ErrPanic ELSE NoErr])

\* Insert's placement of node at the Key d.
insertAt(h, d, node) ==
    CASE KindOf(h, node) \in {"Dict", "List"} ->
            [h |-> SetValue(h, d, node), err |-> NoErr]
      [] KindOf(h, node) = "Key" ->
            IF KindOf(h, h[d].value) # "Dict"
            THEN wrapInDict(h, d, node)
            ELSE addKey(h, h[d].value, node)
      [] OTHER -> wrapInDict(h, d, node)

\* Insert(a, node, to) on the AST whose root is root.
Insert(h, root, node, to) ==
    With(insertWalk(h, splitPath(to), 1, root), LAMBDA w :
         IF w.err # NoErr THEN [h |-> w.h, err |-> w.err]
         ELSE IF KindOf(w.h, w.current) # "Key"
              THEN [h |-> w.h, err |-> ErrExpectingKey]
         ELSE insertAt(w.h, w.current, node))

RECURSIVE lookupWalk(_, _, _, _)
\* The path walk of Lookup (the loop over splitPath(selector)).
lookupWalk(h, parts, i, current) ==
    IF i > Len(parts) THEN [n |-> current, ok |-> TRUE, panic |-> FALSE]
    ELSE With(Find(h, current, parts[i]), LAMBDA f :
         IF f.panic \/ ~f.ok THEN [n |-> NIL, ok |-> FALSE, panic |-> f.panic]
         ELSE lookupWalk(h, parts, i + 1, f.n))

\* Lookup(a, selector) on the AST whose root is root.
Lookup(h, root, selector) ==
    IF root = NIL THEN [n |-> NIL, ok |-> FALSE, panic |-> FALSE]
    ELSE lookupWalk(h, splitPath(selector), 1, root)

\* ------------------------------------------------------------------------
\* Processors
\* ------------------------------------------------------------------------

\* A Processors is the nil slice (NoProcessors) or a slice <<"procs", seq>>,
\* whose seq may have no entries.
RECURSIVE Processors(_, _)
RECURSIVE ProcessorsOfNodes(_, _, _)

\* The loop of Dict.Processors and List.Processors: the first result that
\* is not nil; v.Processors() on a nil child panics.
ProcessorsOfNodes(h, nodes, i) ==
    IF i > Len(nodes) THEN [panic |-> FALSE, p |-> NoProcessors]
    ELSE IF nodes[i] = NIL THEN [panic |-> TRUE, p |-> NoProcessors]
    ELSE With(Processors(h, nodes[i]), LAMBDA r :
              IF r.panic \/ r.p # NoProcessors THEN r
              ELSE ProcessorsOfNodes(h, nodes, i + 1))

\* Node.Processors.
Processors(h, n) ==
    CASE h[n].kind \in {"Dict", "List"} ->
            IF h[n].processors # NoProcessors
            THEN [panic |-> FALSE, p |-> h[n].processors]
            ELSE ProcessorsOfNodes(h, h[n].value, 1)
      [] h[n].kind = "Key" ->
            IF h[n].value # NIL THEN Processors(h, h[n].value)
            ELSE [panic |-> FALSE, p |-> NoProcessors]
      [] OTHER -> [panic |-> FALSE, p |-> h[n].processors]

\* ------------------------------------------------------------------------
\* Hash and Hash64With
\* ------------------------------------------------------------------------

\* A byte sequence is a sequence of <<"byte", ch>>; a SHA-256 digest is the
\* single element <<"sha256", input>>, distinct for distinct inputs.
Bytes(s) == [i \in 1..Len(s) |-> <<"byte", s[i]>>]

sha256(input) == << <<"sha256", input>> >>

trueVal == << <<"byte", "\\x01">> >>

falseVal == << <<"byte", "\\x00">> >>

RECURSIVE hashString(_)
\* strconv.FormatFloat(v, 'f', -1, 64) of the float of the given halves.
hashString(halves) ==
    IF halves < 0 THEN <<"-">> \o hashString(0 - halves)
    ELSE ItoaNat(halves \div 2) \o (IF halves % 2 = 1 THEN <<".", "5">> ELSE <<>>)

\* String() of a scalar, as the hashes use it.
ScalarBytes(rec) ==
    CASE rec.kind = "StrVal"   -> Bytes(rec.value)
      [] rec.kind = "IntVal"   -> Bytes(Itoa(rec.value))
      [] rec.kind = "UIntVal"  -> Bytes(ItoaNat(rec.value))
      [] rec.kind = "FloatVal" -> Bytes(hashString(rec.value))
      [] rec.kind = "BoolVal"  -> IF rec.value THEN trueVal ELSE falseVal

RECURSIVE Hash(_, _)
RECURSIVE HashNodes(_, _, _, _)

\* The loop of Dict.Hash and List.Hash: v.Hash() on a nil child panics.
HashNodes(h, nodes, i, acc) ==
    IF i > Len(nodes) THEN [panic |-> FALSE, bytes |-> acc]
    ELSE IF nodes[i] = NIL THEN [panic |-> TRUE, bytes |-> acc]
    ELSE With(Hash(h, nodes[i]), LAMBDA c :
              IF c.panic THEN c ELSE HashNodes(h, nodes, i + 1, acc \o c.bytes))

\* Node.Hash: the bytes returned, or a panic.
Hash(h, n) ==
    CASE h[n].kind \in {"Dict", "List"} ->
            With(HashNodes(h, h[n].value, 1, <<>>), LAMBDA c :
                 IF c.panic THEN c ELSE [panic |-> FALSE, bytes |-> sha256(c.bytes)])
      [] h[n].kind = "Key" ->
            IF h[n].value = NIL
            THEN [panic |-> FALSE, bytes |-> sha256(Bytes(h[n].name))]
            ELSE With(Hash(h, h[n].value), LAMBDA c :
                      IF c.panic THEN c
                      ELSE [panic |-> FALSE,
                            bytes |-> sha256(Bytes(h[n].name) \o c.bytes)])
      [] OTHER -> [panic |-> FALSE, bytes |-> ScalarBytes(h[n])]

RECURSIVE Hash64With(_, _, _)
RECURSIVE Hash64Nodes(_, _, _, _)

Hash64Nodes(h, nodes, i, fed) ==
    IF i > Len(nodes) THEN [panic |-> FALSE, bytes |-> fed]
    ELSE IF nodes[i] = NIL THEN [panic |-> TRUE, bytes |-> fed]
    ELSE With(Hash64With(h, nodes[i], fed), LAMBDA c :
              IF c.panic THEN c ELSE Hash64Nodes(h, nodes, i + 1, c.bytes))

\* Node.Hash64With: the bytes written to the digest so far (fed) and by n.
Hash64With(h, n, fed) ==
    CASE h[n].kind \in {"Dict", "List"} -> Hash64Nodes(h, h[n].value, 1, fed)
      [] h[n].kind = "Key" ->
            IF h[n].value = NIL
            THEN [panic |-> FALSE, bytes |-> fed \o Bytes(h[n].name)]
            ELSE Hash64With(h, h[n].value, fed \o Bytes(h[n].name))
      [] OTHER -> [panic |-> FALSE, bytes |-> fed \o ScalarBytes(h[n])]

\* The sum of an xxhash digest, distinct for distinct bytes written.
Sum64(fed) == <<"xxhash", fed>>

\* AST.Equal on the ASTs whose roots are a and b: the errors of Hash64With
\* are dropped, and the digest is reset between the two trees.
Equal(h, a, b) ==
    IF a = NIL \/ b = NIL THEN [panic |-> FALSE, equal |-> a = b]
    ELSE With(Hash64With(h, a, <<>>), LAMBDA x :
         With(Hash64With(h, b, <<>>), LAMBDA y :
              [panic |-> x.panic \/ y.panic,
               equal |-> Sum64(x.bytes) = Sum64(y.bytes)]))

\* ------------------------------------------------------------------------
\* Nodes built by a caller (NewDict, NewKey, NewList, New*Val)
\* ------------------------------------------------------------------------

RECURSIVE New(_, _)
RECURSIVE NewNodes(_, _, _, _)

NewNodes(h, trees, i, acc) ==
    IF i > Len(trees) THEN [h |-> h, nodes |-> acc]
    ELSE With(New(h, trees[i]), LAMBDA c :
              NewNodes(c.h, trees, i + 1, Append(acc, c.n)))

\* The node whose tree is the given value (the inverse of TreeOf).
New(h, tree) ==
    CASE tree[1] = "nil"  -> [h |-> h, n |-> NIL]
      [] tree[1] = "Dict" ->
            With(NewNodes(h, tree[2], 1, <<>>), LAMBDA c :
                 Alloc(c.h, Dict(c.nodes, NoProcessors)))
      [] tree[1] = "List" ->
            With(NewNodes(h, tree[2], 1, <<>>), LAMBDA c :
                 Alloc(c.h, List(c.nodes, NoProcessors)))
      [] tree[1] = "Key"  ->
            With(New(h, tree[3]), LAMBDA c : Alloc(c.h, Key(tree[2], c.n)))
      [] tree[1] = "StrVal"   -> Alloc(h, StrVal(tree[2], NoProcessors))
      [] tree[1] = "IntVal"   -> Alloc(h, IntVal(tree[2], NoProcessors))
      [] tree[1] = "UIntVal"  -> Alloc(h, UIntVal(tree[2], NoProcessors))
      [] tree[1] = "FloatVal" -> Alloc(h, FloatVal(tree[2], NoProcessors))
      [] tree[1] = "BoolVal"  -> Alloc(h, BoolVal(tree[2], NoProcessors))

RECURSIVE NewWithProcessors(_, _)
RECURSIVE NewNodesWithProcessors(_, _, _, _)

NewNodesWithProcessors(h, trees, i, acc) ==
    IF i > Len(trees) THEN [h |-> h, nodes |-> acc]
    ELSE With(NewWithProcessors(h, trees[i]), LAMBDA c :
              NewNodesWithProcessors(c.h, trees, i + 1, Append(acc, c.n)))

\* The node built by NewDictWithProcessors, NewListWithProcessors, NewKey
\* and New*ValWithProcessors from a tree whose Dicts, Lists and scalars
\* carry their processors as third component.
NewWithProcessors(h, tree) ==
    CASE tree[1] = "nil"  -> [h |-> h, n |-> NIL]
      [] tree[1] = "Dict" ->
            With(NewNodesWithProcessors(h, tree[2], 1, <<>>), LAMBDA c :
                 Alloc(c.h, Dict(c.nodes, tree[3])))
      [] tree[1] = "List" ->
            With(NewNodesWithProcessors(h, tree[2], 1, <<>>), LAMBDA c :
                 Alloc(c.h, List(c.nodes, tree[3])))
      [] tree[1] = "Key"  ->
            With(NewWithProcessors(h, tree[3]), LAMBDA c : Alloc(c.h, Key(tree[2], c.n)))
      [] tree[1] = "StrVal" -> Alloc(h, StrVal(tree[2], tree[3]))
      [] tree[1] = "IntVal" -> Alloc(h, IntVal(tree[2], tree[3]))

\* ------------------------------------------------------------------------
\* Apply
\* ------------------------------------------------------------------------

\* A Vars is a function from variable names to the trees of their values.

ErrMissingVariable == "no matching vars"

ErrInvalidCondition == "invalid condition"

ErrConditionEval == "condition evaluation failed"

ErrConditionType == "condition key's value must be a string"

\* The name in the variable reference ${name}, or <<>> when the string is
\* no reference.
Reference(str) ==
    IF Len(str) >= 4 /\ str[1] = "$" /\ str[2] = "{" /\ str[Len(str)] = "}"
    THEN SubSeq(str, 3, Len(str) - 1)
    ELSE <<>>

\* Vars.Replace: a string that is one reference becomes the node of the
\* variable's value, and it is an error when no variable has the name; a
\* string without a reference becomes a new StrVal.
Replace(h, str, vs) ==
    IF Reference(str) = <<>>
    THEN With(Alloc(h, StrVal(str, NoProcessors)), LAMBDA a :
              [h |-> a.h, n |-> a.n, err |-> NoErr])
    ELSE IF Reference(str) \in DOMAIN vs
    THEN With(New(h, vs[Reference(str)]), LAMBDA a :
              [h |-> a.h, n |-> a.n, err |-> NoErr])
    ELSE [h |-> h, n |-> NIL, err |-> ErrMissingVariable]

\* eql.New: an expression is a variable name, or "!" and a variable name.
eqlNew(src) ==
    IF Len(src) = 1 /\ src[1] \notin {"!", "$", "{", "}"}
    THEN [ok |-> TRUE, expr |-> <<"var", src>>]
    ELSE IF Len(src) = 2 /\ src[1] = "!" /\ src[2] \notin {"!", "$", "{", "}"}
    THEN [ok |-> TRUE, expr |-> <<"not", <<src[2]>>>>]
    ELSE [ok |-> FALSE, expr |-> NoCondition]

\* Expression.Eval(vars, true): a variable that is missing, or is no
\* boolean, is an error.
eqlEval(expr, vs) ==
    IF expr[2] \notin DOMAIN vs \/ vs[expr[2]][1] # "BoolVal"
    THEN [ok |-> FALSE, cond |-> FALSE]
    ELSE [ok |-> TRUE,
          cond |-> IF expr[1] = "not" THEN ~vs[expr[2]][2] ELSE vs[expr[2]][2]]

\* return &Key{name: name, value: val}, nil
newKeyResult(h, name, val) ==
    With(Alloc(h, Key(name, val)), LAMBDA a : [h |-> a.h, n |-> a.n, err |-> NoErr])

\* Key.Apply gone wrong: the result of the condition is stored in the Key
\* that Apply is called on.
evalConditionInPlace(h, k, vs) ==
    With(eqlEval(h[k].condition, vs), LAMBDA e :
         IF ~e.ok THEN [h |-> h, n |-> NIL, err |-> ErrConditionEval]
         ELSE With(Alloc(h, BoolVal(e.cond, NoProcessors)), LAMBDA b :
                   [h |-> SetValue(b.h, k, b.n), n |-> k, err |-> NoErr]))

\* Key.Apply's evaluation of the compiled condition of the Key k.
evalCondition(h, k, vs) ==
    With(eqlEval(h[k].condition, vs), LAMBDA e :
         IF ~e.ok THEN [h |-> h, n |-> NIL, err |-> ErrConditionEval]
         ELSE With(Alloc(h, BoolVal(e.cond, NoProcessors)), LAMBDA b :
                   newKeyResult(b.h, h[k].name, b.n)))

\* Key.Apply on a Key named condition whose value is a StrVal: the
\* expression is compiled once and kept on the Key.
applyCondition(h, k, vs) ==
    IF h[k].condition # NoCondition THEN evalCondition(h, k, vs)
    ELSE With(eqlNew(h[h[k].value].value), LAMBDA e :
         IF ~e.ok THEN [h |-> h, n |-> NIL, err |-> ErrInvalidCondition]
         ELSE evalCondition([h EXCEPT ![k].condition = e.expr], k, vs))

RECURSIVE Apply(_, _, _)
RECURSIVE DictApplyFrom(_, _, _, _, _)
RECURSIVE ListApplyFrom(_, _, _, _, _)

\* Key.Apply
KeyApply(h, k, vs) ==
    IF h[k].value = NIL THEN [h |-> h, n |-> k, err |-> NoErr]
    ELSE IF h[k].name = conditionKey
         THEN CASE KindOf(h, h[k].value) = "BoolVal" -> [h |-> h, n |-> k, err |-> NoErr]
                [] KindOf(h, h[k].value) = "StrVal" -> applyCondition(h, k, vs)
                [] OTHER -> [h |-> h, n |-> NIL, err |-> ErrConditionType]
    ELSE With(Apply(h, h[k].value, vs), LAMBDA v :
         IF v.err # NoErr \/ v.n = NIL THEN v
         ELSE newKeyResult(v.h, h[k].name, v.n))

\* Dict.Apply gone wrong: a condition that holds is kept in the result.
DictApplyEmittingCondition(h, children, i, vs, nodes) ==
    IF i > Len(children)
    THEN With(Alloc(h, Dict(nodes, NoProcessors)), LAMBDA a :
              [h |-> a.h, n |-> a.n, err |-> NoErr])
    ELSE IF KindOf(h, children[i]) # "Key" THEN [h |-> h, n |-> NIL, err |-> ErrPanic]
    ELSE With(KeyApply(h, children[i], vs), LAMBDA r :
         IF r.err # NoErr THEN [h |-> r.h, n |-> NIL, err |-> r.err]
         ELSE IF r.n = NIL THEN DictApplyFrom(r.h, children, i + 1, vs, nodes)
         ELSE IF /\ r.h[children[i]].name = conditionKey
                 /\ KindOf(r.h, r.h[r.n].value) = "BoolVal"
                 /\ ~r.h[r.h[r.n].value].value
              THEN [h |-> r.h, n |-> NIL, err |-> NoErr]
         ELSE DictApplyFrom(r.h, children, i + 1, vs, Append(nodes, r.n)))

\* The loop of Dict.Apply; nodes are the applied entries kept so far. The
\* assertions v.(*Key) and n.Value().(*BoolVal) panic when they fail.
DictApplyFrom(h, children, i, vs, nodes) ==
    IF i > Len(children)
    THEN With(Alloc(h, Dict(nodes, NoProcessors)), LAMBDA a :
              [h |-> a.h, n |-> a.n, err |-> NoErr])
    ELSE IF KindOf(h, children[i]) # "Key" THEN [h |-> h, n |-> NIL, err |-> ErrPanic]
    ELSE With(KeyApply(h, children[i], vs), LAMBDA r :
         IF r.err # NoErr THEN [h |-> r.h, n |-> NIL, err |-> r.err]
         ELSE IF r.n = NIL THEN DictApplyFrom(r.h, children, i + 1, vs, nodes)
         ELSE IF r.h[children[i]].name = conditionKey
              THEN IF KindOf(r.h, r.h[r.n].value) # "BoolVal"
                   THEN [h |-> r.h, n |-> NIL, err |-> ErrPanic]
                   ELSE IF ~r.h[r.h[r.n].value].value
                   THEN [h |-> r.h, n |-> NIL, err |-> NoErr]
                   ELSE DictApplyFrom(r.h, children, i + 1, vs, nodes)
         ELSE DictApplyFrom(r.h, children, i + 1, vs, Append(nodes, r.n)))

\* The loop of List.Apply; v.Apply on a nil element panics.
ListApplyFrom(h, children, i, vs, nodes) ==
    IF i > Len(children)
    THEN With(Alloc(h, List(nodes, NoProcessors)), LAMBDA a :
              [h |-> a.h, n |-> a.n, err |-> NoErr])
    ELSE IF children[i] = NIL THEN [h |-> h, n |-> NIL, err |-> ErrPanic]
    ELSE With(Apply(h, children[i], vs), LAMBDA r :
         IF r.err # NoErr THEN [h |-> r.h, n |-> NIL, err |-> r.err]
         ELSE IF r.n = NIL THEN ListApplyFrom(r.h, children, i + 1, vs, nodes)
         ELSE ListApplyFrom(r.h, children, i + 1, vs, Append(nodes, r.n)))

\* Node.Apply: the heap, the node returned (NIL for the absent sentinel)
\* and the error.
Apply(h, n, vs) ==
    CASE h[n].kind = "Dict"   -> DictApplyFrom(h, h[n].value, 1, vs, <<>>)
      [] h[n].kind = "List"   -> ListApplyFrom(h, h[n].value, 1, vs, <<>>)
      [] h[n].kind = "Key"    -> KeyApply(h, n, vs)
      [] h[n].kind = "StrVal" -> Replace(h, h[n].value, vs)
      [] OTHER -> [h |-> h, n |-> n, err |-> NoErr]

\* ------------------------------------------------------------------------
\* Accept, dispatch and Map
\* ------------------------------------------------------------------------

RECURSIVE dispatch(_, _)
RECURSIVE dispatchKeys(_, _, _, _)
RECURSIVE dispatchElems(_, _, _, _)

RECURSIVE dispatchKeysBackwards(_, _, _, _)
\* The loop over the children of a Dict gone wrong: from the last child to
\* the first.
dispatchKeysBackwards(h, nodes, i, calls) ==
    IF i > Len(nodes) THEN [panic |-> FALSE, calls |-> Append(calls, <<"OnComplete">>)]
    ELSE With(nodes[Len(nodes) + 1 - i], LAMBDA child :
         IF KindOf(h, child) # "Key" THEN [panic |-> TRUE, calls |-> calls]
         ELSE With(dispatch(h, h[child].value), LAMBDA sub :
              IF sub.panic
              THEN [panic |-> TRUE,
                    calls |-> calls \o <<<<"OnKey", h[child].name>>, <<"Visitor">>>>
                                    \o sub.calls]
              ELSE dispatchKeysBackwards(h, nodes, i + 1,
                       calls \o <<<<"OnKey", h[child].name>>, <<"Visitor">>>>
                             \o sub.calls \o <<<<"OnValue">>>>)))

\* The loop of dispatch over the children of a Dict; child.(*Key) panics on
\* a child that is no Key.
dispatchKeys(h, nodes, i, calls) ==
    IF i > Len(nodes) THEN [panic |-> FALSE, calls |-> Append(calls, <<"OnComplete">>)]
    ELSE IF KindOf(h, nodes[i]) # "Key" THEN [panic |-> TRUE, calls |-> calls]
    ELSE With(dispatch(h, h[nodes[i]].value), LAMBDA sub :
         IF sub.panic
         THEN [panic |-> TRUE,
               calls |-> calls \o <<<<"OnKey", h[nodes[i]].name>>, <<"Visitor">>>>
                               \o sub.calls]
         ELSE dispatchKeys(h, nodes, i + 1,
                  calls \o <<<<"OnKey", h[nodes[i]].name>>, <<"Visitor">>>>
                        \o sub.calls \o <<<<"OnValue">>>>))

\* The loop of dispatch over the children of a List.
dispatchElems(h, nodes, i, calls) ==
    IF i > Len(nodes) THEN [panic |-> FALSE, calls |-> Append(calls, <<"OnComplete">>)]
    ELSE With(dispatch(h, nodes[i]), LAMBDA sub :
         IF sub.panic
         THEN [panic |-> TRUE, calls |-> calls \o <<<<"Visitor">>>> \o sub.calls]
         ELSE dispatchElems(h, nodes, i + 1,
                  calls \o <<<<"Visitor">>>> \o sub.calls \o <<<<"OnValue">>>>))

\* AST.dispatch: the calls made on the visitor and its sub-visitors, in
\* order; no call is made for the nil Node.
dispatch(h, n) ==
    CASE KindOf(h, n) = "Dict" -> dispatchKeys(h, h[n].value, 1, <<<<"OnDict">>>>)
      [] KindOf(h, n) = "List" -> dispatchElems(h, h[n].value, 1, <<<<"OnList">>>>)
      [] KindOf(h, n) = "StrVal"   -> [panic |-> FALSE, calls |-> <<<<"OnStr", h[n].value>>>>]
      [] KindOf(h, n) = "IntVal"   -> [panic |-> FALSE, calls |-> <<<<"OnInt", h[n].value>>>>]
      [] KindOf(h, n) = "UIntVal"  -> [panic |-> FALSE, calls |-> <<<<"OnUInt", h[n].value>>>>]
      [] KindOf(h, n) = "BoolVal"  -> [panic |-> FALSE, calls |-> <<<<"OnBool", h[n].value>>>>]
      [] KindOf(h, n) = "FloatVal" -> [panic |-> FALSE, calls |-> <<<<"OnFloat", h[n].value>>>>]
      [] OTHER -> [panic |-> FALSE, calls |-> <<>>]

\* The native mapping f with key holding val.
MapSet(f, key, val) ==
    [k \in (DOMAIN f) \cup {key} |-> IF k = key THEN val ELSE f[k]]

RECURSIVE MapVisitor(_, _)
RECURSIVE MapVisitorDict(_, _, _)
RECURSIVE MapVisitorList(_, _, _)

\* The MapVisitor's Content after the calls from index i on, and the index
\* of the first call that is not its own: a visitor that gets no call keeps
\* a nil Content.
MapVisitor(calls, i) ==
    IF i > Len(calls) THEN [content |-> <<"nil">>, next |-> i]
    ELSE CASE calls[i][1] = "OnDict"  -> MapVisitorDict(calls, i + 1, [k \in {} |-> <<"nil">>])
           [] calls[i][1] = "OnList"  -> MapVisitorList(calls, i + 1, <<>>)
           [] calls[i][1] = "OnStr"   -> [content |-> <<"string", calls[i][2]>>, next |-> i + 1]
           [] calls[i][1] = "OnInt"   -> [content |-> <<"int", calls[i][2]>>, next |-> i + 1]
           [] calls[i][1] = "OnUInt"  -> [content |-> <<"uint", calls[i][2]>>, next |-> i + 1]
           [] calls[i][1] = "OnBool"  -> [content |-> <<"bool", calls[i][2]>>, next |-> i + 1]
           [] calls[i][1] = "OnFloat" -> [content |-> <<"float", calls[i][2]>>, next |-> i + 1]
           [] OTHER -> [content |-> <<"nil">>, next |-> i]

\* The DictVisitor of the MapVisitor: OnKey remembers the name, OnValue
\* stores the sub-visitor's Content under it.
MapVisitorDict(calls, i, f) ==
    IF calls[i][1] = "OnComplete" THEN [content |-> <<"map", f>>, next |-> i + 1]
    ELSE With(MapVisitor(calls, i + 2), LAMBDA sub :
              MapVisitorDict(calls, sub.next + 1, MapSet(f, calls[i][2], sub.content)))

\* The ListVisitor of the MapVisitor: OnValue appends the sub-visitor's
\* Content.
MapVisitorList(calls, i, elems) ==
    IF calls[i][1] = "OnComplete" THEN [content |-> <<"slice", elems>>, next |-> i + 1]
    ELSE With(MapVisitor(calls, i + 1), LAMBDA sub :
              MapVisitorList(calls, sub.next + 1, Append(elems, sub.content)))

ErrNotAMap == "could not convert to map"

\* AST.Map: the native mapping rebuilt from the tree, or the error.
Map(h, root) ==
    With(dispatch(h, root), LAMBDA d :
         IF d.panic THEN [content |-> <<"nil">>, err |-> ErrPanic]
         ELSE With(MapVisitor(d.calls, 1).content, LAMBDA content :
                   IF content[1] = "map" THEN [content |-> content, err |-> NoErr]
                   ELSE [content |-> <<"nil">>, err |-> ErrNotAMap]))

\* ------------------------------------------------------------------------
\* Inputs
\* ------------------------------------------------------------------------

sa == <<"a">>
sb == <<"b">>
sx == <<"x">>
sab == <<"a", ".", "b">>
sabc == <<"a", ".", "b", ".", "c">>

NInt(i) == <<"int", i>>
NNil == <<"nil">>
NMap(f) == <<"map", f>>
NSlice(elems) == <<"slice", elems>>
NChan == <<"chan">>
EmptyMap == [k \in {} |-> NNil]

\* The largest number of keys of one native mapping of the Loader's inputs.
MaxKeys == 2

\* The largest number of Insert calls on the trees of one behaviour.
MaxInserts == 2

MapsOver(names, vals, k) ==
    UNION {[S -> vals] : S \in {T \in SUBSET names : Cardinality(T) <= k}}

LeafVals == {NInt(1), NNil, NSlice(<<NNil, NInt(2)>>), NChan}

InnerMaps == {NMap(f) : f \in MapsOver({sx, sb}, {NInt(1), NSlice(<<NNil>>)}, MaxKeys)}

DeepMaps == {NMap(sb :> v) : v \in {NInt(1), NMap(sx :> NInt(1)), NMap(EmptyMap)}}

\* The native mappings given to the Loader.
LoadInputs == MapsOver({sa, sab, sabc}, LeafVals \cup InnerMaps \cup DeepMaps, MaxKeys)

\* The native mappings of the trees that Insert and the clones work on.
Inputs ==
    { EmptyMap,
      sa :> NInt(1),
      sa :> NNil,
      sa :> NMap(sb :> NInt(1)),
      sa :> NSlice(<<>>),
      sa :> NSlice(<<NMap(sb :> NInt(1))>>),
      (sa :> NMap(sx :> NInt(1))) @@ (sb :> NInt(2)) }

\* The nodes given to Insert, as trees.
NodeTrees ==
    { <<"IntVal", 1>>,
      <<"Dict", << <<"Key", sa, <<"IntVal", 1>>>>, <<"Key", sb, <<"Dict", <<>>>>>> >> >>,
      <<"List", <<>>>>,
      <<"Key", sb, <<"IntVal", 2>>>>,
      <<"Key", sa, <<"Dict", <<>>>>>> }

\* The selectors given to Insert.
Selectors ==
    { <<>>, sa, sb, sab, <<"a", ".", "0">>, <<"a", ".", "1", ".", "b">>,
      <<"a", ".", "x", ".", "b">> }

\* The nodes and the selectors given to Insert on a tree and its clone.
CloneNodeTrees ==
    { <<"IntVal", 1>>,
      <<"Dict", <<>>>>,
      <<"Key", sb, <<"IntVal", 2>>>> }

CloneSelectors == { sa, sab, <<"a", ".", "1", ".", "b">> }

\* The native mappings of the trees that are cloned.
CloneInputs ==
    { sa :> NInt(1),
      sa :> NNil,
      sa :> NMap(sb :> NInt(1)),
      sa :> NSlice(<<NMap(sb :> NInt(1))>>),
      (sa :> NMap(sx :> NNil)) @@ (sb :> NInt(2)) }

NStr(str) == <<"string", str>>
NBool(b) == <<"bool", b>>
sy == <<"y">>
refY == <<"$", "{", "y", "}">>

\* The values of the entries of the mappings that Apply is called on: the
\* conditions false, true, x and ${y}, values that are no conditions, and a
\* mapping whose condition is no condition.
ApplyVals ==
    { NBool(FALSE), NBool(TRUE), NStr(sx), NStr(refY), NInt(1), NNil,
      NMap(conditionKey :> NInt(1)) }

ApplyMaps == MapsOver({sa, conditionKey, sx}, ApplyVals, MaxKeys)

\* Lists whose elements are dropped (condition false), fail with different
\* errors (a missing variable, a condition that is an int), or are nil.
ApplyListInputs ==
    { sa :> NSlice(<<NMap(conditionKey :> NBool(FALSE)), NInt(1),
                     NMap(conditionKey :> NBool(FALSE)), NStr(sx)>>),
      sa :> NSlice(<<NStr(refY), NMap(conditionKey :> NInt(1))>>),
      sa :> NSlice(<<NMap(conditionKey :> NInt(1)), NStr(refY)>>),
      sa :> NSlice(<<NNil, NInt(1)>>) }

\* The native mappings of the trees that Apply is called on: a mapping with
\* or without a condition, alone, under a key and in a list.
ApplyInputs ==
    ApplyMaps
    \cup {sa :> NMap(f) : f \in ApplyMaps}
    \cup {conditionKey :> NMap(f) : f \in ApplyMaps}
    \cup {sa :> NSlice(<<NMap(f), NInt(1)>>) : f \in ApplyMaps}
    \cup ApplyListInputs

\* The nodes and the selectors given to Insert on the tree that Apply has
\* returned.
ResultNodeTrees == { <<"IntVal", 1>>, <<"Key", sb, <<"IntVal", 2>>>> }

ResultSelectors == { sa, sab }

\* The variables given to Apply.
VarsSet ==
    { <<>>,
      (sx :> <<"BoolVal", TRUE>>) @@ (sy :> <<"IntVal", 7>>),
      sx :> <<"BoolVal", FALSE>> }

\* The processors attached to a node: none (nil), a list of no entries, and
\* two lists of one entry.
ProcessorsSet ==
    { NoProcessors, <<"procs", <<>>>>, <<"procs", <<"p1">>>>, <<"procs", <<"p2">>>> }

\* The trees that Processors is called on:
\* {a: [1], b: nil, x: "x"} with processors on the Dict, the List, the
\* IntVal and the StrVal.
ProcessorsInputs ==
    { <<"Dict",
        << <<"Key", sa, <<"List", << <<"IntVal", 1, p2>> >>, p1>> >>,
           <<"Key", sb, <<"nil">> >>,
           <<"Key", sx, <<"StrVal", sx, p3>> >> >>,
        p0>> : p0 \in ProcessorsSet, p1 \in ProcessorsSet,
               p2 \in ProcessorsSet, p3 \in ProcessorsSet }

RECURSIVE Reach(_, _)
\* The nodes at or below the node n.
Reach(h, n) ==
    IF n = NIL THEN {}
    ELSE {n} \cup
         CASE h[n].kind \in {"Dict", "List"} ->
                 UNION {Reach(h, h[n].value[i]) : i \in 1..Len(h[n].value)}
           [] h[n].kind = "Key" -> Reach(h, h[n].value)
           [] OTHER -> {}

\* ------------------------------------------------------------------------
\* The trees that the claims speak about
\* ------------------------------------------------------------------------

RECURSIVE SubTrees(_)
\* Every tree at or below the given tree.
SubTrees(tree) ==
    {tree} \cup
    CASE tree[1] \in {"Dict", "List"} ->
            UNION {SubTrees(tree[2][i]) : i \in 1..Len(tree[2])}
      [] tree[1] = "Key" -> SubTrees(tree[3])
      [] OTHER -> {}

DictsOf(tree) == {d \in SubTrees(tree) : d[1] = "Dict"}

\* Every child of the Dict is a Key.
OnlyKeys(d) == \A i \in 1..Len(d[2]) : d[2][i][1] = "Key"

\* The Dict's children are Keys in strictly ascending order of name.
Ascending(d) ==
    /\ OnlyKeys(d)
    /\ \A i \in 1..(Len(d[2]) - 1) : StrLess(d[2][i][2], d[2][i + 1][2])

\* No two Key children of the Dict have the same name.
UniqueKeys(d) ==
    \A i, j \in 1..Len(d[2]) :
        (i # j /\ d[2][i][1] = "Key" /\ d[2][j][1] = "Key") => d[2][i][2] # d[2][j][2]

\* Two hashes are equal: both calls return, and return the same bytes.
SameHash(a, b) == ~a.panic /\ ~b.panic /\ a.bytes = b.bytes

\* ------------------------------------------------------------------------
\* State
\* ------------------------------------------------------------------------

VARIABLES
    heap,      \* the nodes allocated so far
    m,         \* the native mapping given to NewAST
    t,         \* the root of the AST built by NewAST, NIL before
    c,         \* the root of the AST made from t by Clone or ShallowClone
    cKind,     \* "none", "Clone" or "ShallowClone"
    last,      \* the last call: its name, its arguments and its error
    prev,      \* the trees of t and c before the last call
    inserts,   \* the number of Insert calls so far
    out        \* what the last call returned besides its error

vars == <<heap, m, t, c, cKind, last, prev, inserts, out>>

NoOut == <<"none">>

Call(op, tree, node, sel, err) ==
    [op |-> op, tree |-> tree, node |-> node, sel |-> sel, err |-> err]

Trees(h, rt, rc) == [t |-> TreeOf(h, rt), c |-> TreeOf(h, rc)]

Root(tree) == IF tree = "t" THEN t ELSE c

InitWith(inputs) ==
    /\ m \in inputs
    /\ heap = <<>>
    /\ t = NIL
    /\ c = NIL
    /\ cKind = "none"
    /\ last = Call("init", "t", NIL, <<>>, NoErr)
    /\ prev = Trees(<<>>, NIL, NIL)
    /\ inserts = 0
    /\ out = NoOut

Init == InitWith(Inputs)

InitLoad == InitWith(LoadInputs)

InitClone == InitWith(CloneInputs)

InitApply == InitWith(ApplyInputs)

InitProcessors == InitWith(ProcessorsInputs)

\* t, err := NewAST(m)
DoNewAST ==
    /\ last.op = "init"
    /\ \E r \in {NewAST(heap, m)} :
       /\ heap' = r.h
       /\ t' = IF r.err = NoErr THEN r.n ELSE NIL
       /\ last' = Call("NewAST", "t", NIL, <<>>, r.err)
    /\ prev' = Trees(heap, t, c)
    /\ out' = NoOut
    /\ UNCHANGED <<m, c, cKind, inserts>>

\* c := t.Clone()
DoClone ==
    /\ t # NIL /\ c = NIL /\ last.err # ErrPanic
    /\ \E r \in {Clone(heap, t)} :
       /\ heap' = r.h
       /\ c' = r.n
    /\ cKind' = "Clone"
    /\ last' = Call("Clone", "t", NIL, <<>>, NoErr)
    /\ prev' = Trees(heap, t, c)
    /\ out' = NoOut
    /\ UNCHANGED <<m, t, inserts>>

\* c := t.ShallowClone()
DoShallowClone ==
    /\ t # NIL /\ c = NIL /\ last.err # ErrPanic
    /\ \E r \in {ShallowClone(heap, t)} :
       /\ heap' = r.h
       /\ c' = r.n
    /\ cKind' = "ShallowClone"
    /\ last' = Call("ShallowClone", "t", NIL, <<>>, NoErr)
    /\ prev' = Trees(heap, t, c)
    /\ out' = NoOut
    /\ UNCHANGED <<m, t, inserts>>

\* err := Insert(tree, node, to) with a node the caller has just built
DoInsert(tree, nodeTree, to) ==
    /\ Root(tree) # NIL /\ last.err # ErrPanic
    /\ inserts < MaxInserts
    /\ \E b \in {New(heap, nodeTree)} :
       \E r \in {Insert(b.h, Root(tree), b.n, to)} :
           /\ heap' = r.h
           /\ last' = Call("Insert", tree, b.n, to, r.err)
    /\ prev' = Trees(heap, t, c)
    /\ inserts' = inserts + 1
    /\ out' = NoOut
    /\ UNCHANGED <<m, t, c, cKind>>

\* The caller repeats the Insert call that has just succeeded.
DoInsertAgain ==
    /\ last.op = "Insert" /\ last.err = NoErr
    /\ \E r \in {Insert(heap, Root(last.tree), last.node, last.sel)} :
           /\ heap' = r.h
           /\ last' = Call("InsertAgain", last.tree, last.node, last.sel, r.err)
    /\ prev' = Trees(heap, t, c)
    /\ out' = NoOut
    /\ UNCHANGED <<m, t, c, cKind, inserts>>

\* mapped, err := t.Map()
DoMap ==
    /\ t # NIL /\ last.op = "NewAST"
    /\ \E r \in {Map(heap, t)} :
           /\ out' = r.content
           /\ last' = Call("Map", "t", NIL, <<>>, r.err)
    /\ prev' = Trees(heap, t, c)
    /\ UNCHANGED <<heap, m, t, c, cKind, inserts>>

\* t.Accept(visitor) with a visitor that records the calls made on it and
\* on its sub-visitors
DoAccept ==
    /\ t # NIL /\ last.op = "NewAST"
    /\ \E r \in {dispatch(heap, t)} :
           /\ out' = <<"Accept", r.calls>>
           /\ last' = Call("Accept", "t", NIL, <<>>,
                           IF r.panic THEN ErrPanic ELSE NoErr)
    /\ prev' = Trees(heap, t, c)
    /\ UNCHANGED <<heap, m, t, c, cKind, inserts>>

\* applied, err := node.Apply(vs) on a node of t
DoApply(node, vs) ==
    /\ last.op = "NewAST"
    /\ node \in Reach(heap, t)
    /\ \E r \in {Apply(heap, node, vs)} :
           /\ heap' = r.h
           /\ out' = <<"Apply", r.n, vs>>
           /\ last' = Call("Apply", "t", node, <<>>, r.err)
    /\ prev' = Trees(heap, t, c)
    /\ UNCHANGED <<m, t, c, cKind, inserts>>

\* The caller applies other variables to the node it has just applied.
DoApplyAgain(vs) ==
    /\ last.op = "Apply" /\ last.err # ErrPanic
    /\ \E r \in {Apply(heap, last.node, vs)} :
           /\ heap' = r.h
           /\ out' = <<"Apply", r.n, vs>>
           /\ last' = Call("ApplyAgain", "t", last.node, <<>>, r.err)
    /\ prev' = Trees(heap, t, c)
    /\ UNCHANGED <<m, t, c, cKind, inserts>>

\* err := Insert(r, node, to) on the tree r that Apply of the root of t has
\* returned, with a node the caller has just built
DoInsertOnResult(nodeTree, to) ==
    /\ \/ last.op = "Apply" /\ last.node = t /\ last.err = NoErr
       \/ last.op = "InsertResult" /\ last.err # ErrPanic
    /\ out[2] # NIL
    /\ inserts < MaxInserts
    /\ \E b \in {New(heap, nodeTree)} :
       \E r \in {Insert(b.h, out[2], b.n, to)} :
           /\ heap' = r.h
           /\ last' = Call("InsertResult", "r", b.n, to, r.err)
    /\ prev' = Trees(heap, t, c)
    /\ inserts' = inserts + 1
    /\ UNCHANGED <<m, t, c, cKind, out>>

\* t := the tree m, built with the New*WithProcessors constructors
DoNewWithProcessors ==
    /\ last.op = "init"
    /\ \E r \in {NewWithProcessors(heap, m)} :
       /\ heap' = r.h
       /\ t' = r.n
    /\ last' = Call("NewWithProcessors", "t", NIL, <<>>, NoErr)
    /\ prev' = Trees(heap, t, c)
    /\ out' = NoOut
    /\ UNCHANGED <<m, c, cKind, inserts>>

\* p := node.Processors() on a node of t
DoProcessors(node) ==
    /\ last.op \in {"NewWithProcessors", "Processors"}
    /\ node \in Reach(heap, t)
    /\ \E r \in {Processors(heap, node)} :
           /\ out' = <<"Processors", r.p>>
           /\ last' = Call("Processors", "t", node, <<>>,
                           IF r.panic THEN ErrPanic ELSE NoErr)
    /\ prev' = Trees(heap, t, c)
    /\ UNCHANGED <<heap, m, t, c, cKind, inserts>>

ProcessorsOnT == \E node \in 1..Len(heap) : DoProcessors(node)

InsertOnResult == \E n \in ResultNodeTrees, to \in ResultSelectors : DoInsertOnResult(n, to)

ApplyOnT == \E node \in 1..Len(heap), vs \in VarsSet : DoApply(node, vs)

ApplyAgainOnT == \E vs \in VarsSet : DoApplyAgain(vs)

InsertOnT == \E n \in NodeTrees, to \in Selectors : DoInsert("t", n, to)

CloneInsertOnT == \E n \in CloneNodeTrees, to \in CloneSelectors : DoInsert("t", n, to)

CloneInsertOnC ==
    /\ c # NIL
    /\ \E n \in CloneNodeTrees, to \in CloneSelectors : DoInsert("c", n, to)

\* A tree is loaded and inserted into.
Next == DoNewAST \/ InsertOnT \/ DoInsertAgain

Spec == Init /\ [][Next]_vars

\* A tree is loaded from any of the Loader's inputs and cloned.
NextLoad == DoNewAST \/ DoMap \/ DoAccept \/ DoClone \/ DoShallowClone

SpecLoad == InitLoad /\ [][NextLoad]_vars

\* A tree is loaded and cloned, the tree and its clone are inserted into.
NextClone == DoNewAST \/ DoClone \/ DoShallowClone \/ CloneInsertOnT \/ CloneInsertOnC

SpecClone == InitClone /\ [][NextClone]_vars

\* A tree is loaded, variables are applied to its nodes, and the tree that
\* Apply returns is inserted into.
NextApply == DoNewAST \/ ApplyOnT \/ ApplyAgainOnT \/ InsertOnResult

SpecApply == InitApply /\ [][NextApply]_vars

\* A tree is built with processors attached, and Processors is called on
\* its nodes.
NextProcessors == DoNewWithProcessors \/ ProcessorsOnT

SpecProcessors == InitProcessors /\ [][NextProcessors]_vars

\* ------------------------------------------------------------------------
\* Claims
\* ------------------------------------------------------------------------

\* C1: Insert is idempotent: when the Insert call that has just succeeded is
\* repeated with the same node and selector, the tree is what it was after
\* the first call.
C1_InsertIdempotent ==
    last.op = "InsertAgain" => /\ last.err = NoErr
                               /\ TreeOf(heap, t) = prev.t

RECURSIVE NestFrom(_, _, _)
\* The native value {keys[i]: {keys[i+1]: ... {keys[n]: val}}}.
NestFrom(keys, i, val) ==
    IF i > Len(keys) THEN val
    ELSE <<"map", keys[i] :> NestFrom(keys, i + 1, val)>>

\* The nested native mapping for the flat mapping {name: val}.
Nested(name, val) == Split(name)[1] :> NestFrom(Split(name), 2, val)

RECURSIVE StripNil(_)
\* The tree without the nil elements of its Lists.
StripNil(tree) ==
    CASE tree[1] = "Dict" -> <<"Dict", [i \in 1..Len(tree[2]) |-> StripNil(tree[2][i])]>>
      [] tree[1] = "List" ->
            <<"List", LET kept == SelectSeq(tree[2], LAMBDA e : e[1] # "nil")
                      IN  [i \in 1..Len(kept) |-> StripNil(kept[i])]>>
      [] tree[1] = "Key" -> <<"Key", tree[2], StripNil(tree[3])>>
      [] OTHER -> tree

\* The result of NewAST on the native mapping f: the error and the tree.
Loaded(f) == LET r == NewAST(<<>>, f) IN <<r.err, TreeOf(r.h, r.n)>>

OnlyKey == CHOOSE k \in DOMAIN m : TRUE

RECURSIVE LeafPaths(_, _)
\* The leaves of a native value with their paths, a dotted key counting as
\* the path of its components.
LeafPaths(val, path) ==
    CASE val[1] = "map" ->
            IF DOMAIN val[2] = {} THEN {<<path, <<"empty map">>>>}
            ELSE UNION {LeafPaths(val[2][k], path \o Split(k)) : k \in DOMAIN val[2]}
      [] val[1] = "slice" ->
            {<<path, <<"slice", Len(val[2])>>>>} \cup
            UNION {LeafPaths(val[2][i], Append(path, <<"#", Digits[i + 1]>>))
                     : i \in 1..Len(val[2])}
      [] OTHER -> {<<path, val>>}

IsPrefix(p, q) == Len(p) < Len(q) /\ SubSeq(q, 1, Len(p)) = p

\* The leaves without the empty mappings that other leaves lie below.
Leaves(val) ==
    LET all == LeafPaths(val, <<>>)
    IN  {e \in all : ~(e[2] = <<"empty map">> /\ \E o \in all : IsPrefix(e[1], o[1]))}

\* C3: Map(NewAST(m)) succeeds and is m up to the order of the keys and the
\* explosion of dotted keys: it has the leaves of m, each at its path.
C3_RoundTrip ==
    last.op = "Map" => /\ last.err = NoErr
                       /\ Leaves(out) = Leaves(<<"map", m>>)

\* C4: after NewAST every Mapping of the tree, at every depth, has its
\* KeyedEntry children in strictly ascending order of name.
C4_LoaderAscending ==
    (last.op = "NewAST" /\ last.err = NoErr) =>
        \A d \in DictsOf(TreeOf(heap, t)) : Ascending(d)

\* C5: in a tree made by NewAST and successful Insert calls no Mapping has
\* two KeyedEntry children of the same name.
C5_UniqueKeys ==
    (t # NIL /\ last.err = NoErr) =>
        \A d \in DictsOf(TreeOf(heap, t)) : UniqueKeys(d)

\* C6: in a tree made by NewAST and Insert calls of any node variant every
\* child of every Mapping is a KeyedEntry.
C6_OnlyKeyedEntries ==
    t # NIL => \A d \in DictsOf(TreeOf(heap, t)) : OnlyKeys(d)

\* C7: the strong hash and the fast hash feed of Clone(t) and of
\* ShallowClone(t) equal those of t, for every tree t of the Loader.
C7_HashOfClone ==
    last.op \in {"Clone", "ShallowClone"} =>
        /\ SameHash(Hash(heap, c), Hash(heap, t))
        /\ SameHash(Hash64With(heap, c, <<>>), Hash64With(heap, t, <<>>))

\* C8: after c = Clone(t) an Insert on c leaves t as it was, and an Insert
\* on t leaves c as it was.
C8_CloneIndependent ==
    (cKind = "Clone" /\ last.op = "Insert") =>
        /\ last.tree = "c" => TreeOf(heap, t) = prev.t
        /\ last.tree = "t" => TreeOf(heap, c) = prev.c

\* C8 witness: an Insert below the first level of the clone has succeeded
\* and has changed the clone.
C8_Witness ==
    /\ cKind = "Clone" /\ last.op = "Insert" /\ last.tree = "c"
    /\ last.err = NoErr
    /\ Len(splitPath(last.sel)) >= 2
    /\ TreeOf(heap, c) # prev.c
    /\ TreeOf(heap, t) = prev.t

\* C9 as stated: after s = ShallowClone(t) an Insert on s at any selector
\* leaves t as it was.
C9_ShallowCloneIndependent ==
    (cKind = "ShallowClone" /\ last.op = "Insert" /\ last.tree = "c") =>
        TreeOf(heap, t) = prev.t

\* The Keys of the two Dicts are pairwise different nodes with the same name
\* and the same value node.
FreshKeysSharedValues(h, d1, d2) ==
    /\ d1 # d2
    /\ Len(h[d1].value) = Len(h[d2].value)
    /\ \A i \in 1..Len(h[d1].value) : \A j \in 1..Len(h[d2].value) :
          h[d1].value[i] # h[d2].value[j]
    /\ \A i \in 1..Len(h[d1].value) :
          /\ h[h[d1].value[i]].name = h[h[d2].value[i]].name
          /\ h[h[d1].value[i]].value = h[h[d2].value[i]].value

\* C9 amended: in s = ShallowClone(t) the root Mapping and its KeyedEntries
\* are new nodes and the values of these entries are the nodes of t; an
\* Insert on s of a Mapping, Sequence or scalar at a selector of one
\* component leaves t as it was.
C9_ShallowCloneTopLevel ==
    /\ last.op = "ShallowClone" => FreshKeysSharedValues(heap, c, t)
    /\ (/\ cKind = "ShallowClone" /\ last.op = "Insert" /\ last.tree = "c"
        /\ Len(splitPath(last.sel)) = 1
        /\ KindOf(heap, last.node) # "Key") => TreeOf(heap, t) = prev.t

\* C9 witness: an Insert of a node that is no Key at a selector of one
\* component has succeeded on the shallow clone and has changed it.
C9_Witness ==
    /\ cKind = "ShallowClone" /\ last.op = "Insert" /\ last.tree = "c"
    /\ last.err = NoErr
    /\ Len(splitPath(last.sel)) = 1
    /\ KindOf(heap, last.node) # "Key"
    /\ TreeOf(heap, c) # prev.c
    /\ Len(heap[t].value) > 0

\* The Dict d holds a Key named condition whose value is false for the
\* variables vs: BoolVal false, or an expression that evaluates to false.
FalseCondition(h, d, vs) ==
    /\ KindOf(h, d) = "Dict"
    /\ \E i \in 1..Len(h[d].value) :
          /\ KindOf(h, h[d].value[i]) = "Key"
          /\ h[h[d].value[i]].name = conditionKey
          /\ \/ /\ KindOf(h, h[h[d].value[i]].value) = "BoolVal"
                /\ ~h[h[h[d].value[i]].value].value
             \/ /\ KindOf(h, h[h[d].value[i]].value) = "StrVal"
                /\ eqlNew(h[h[h[d].value[i]].value].value).ok
                /\ eqlEval(eqlNew(h[h[h[d].value[i]].value].value).expr, vs)
                      = [ok |-> TRUE, cond |-> FALSE]

\* The call that has just returned is Apply of the node n with the
\* variables vs, and it has returned the absent sentinel and no error.
AppliedToAbsent == last.err = NoErr /\ out[2] = NIL

\* C10: Apply of a Mapping that holds a false condition returns the absent
\* sentinel and no error, whatever the variables and the other entries
\* are; so does Apply of the KeyedEntry that holds the Mapping, and the
\* applied parent Mapping or Sequence is without the entry or the element.
C10_ConditionPruning ==
    last.op \in {"Apply", "ApplyAgain"} =>
        /\ FalseCondition(heap, last.node, out[3]) => AppliedToAbsent
        /\ (/\ KindOf(heap, last.node) = "Key"
            /\ FalseCondition(heap, heap[last.node].value, out[3])) => AppliedToAbsent
        /\ (/\ KindOf(heap, last.node) = "Dict"
            /\ last.err = NoErr /\ out[2] # NIL) =>
               \A i \in 1..Len(heap[last.node].value) :
                   FalseCondition(heap, heap[heap[last.node].value[i]].value, out[3]) =>
                       \A j \in 1..Len(heap[out[2]].value) :
                           heap[heap[out[2]].value[j]].name
                               # heap[heap[last.node].value[i]].name
        /\ (/\ KindOf(heap, last.node) = "List"
            /\ last.err = NoErr /\ out[2] # NIL) =>
               Len(heap[out[2]].value)
                 + Cardinality({i \in 1..Len(heap[last.node].value) :
                       FalseCondition(heap, heap[last.node].value[i], out[3])})
                   <= Len(heap[last.node].value)

\* The call that has just returned is Apply, and it has returned a node.
Applied == last.op \in {"Apply", "ApplyAgain"} /\ last.err = NoErr /\ out[2] # NIL

\* The Dict d has a Key named condition.
HasCondition(h, d) ==
    \E i \in 1..Len(h[d].value) :
        KindOf(h, h[d].value[i]) = "Key" /\ h[h[d].value[i]].name = conditionKey

\* The entries of the Dict d that Apply keeps: those not named condition
\* whose own Apply returns a node.
KeptEntries(h, d, vs) ==
    SelectSeq(h[d].value,
              LAMBDA k : h[k].name # conditionKey /\ KeyApply(h, k, vs).n # NIL)

\* The tree of the node that Apply of the Key k returns.
AppliedEntry(h, k, vs) == With(KeyApply(h, k, vs), LAMBDA r : TreeOf(r.h, r.n))

C12_ApplyLeavesInput ==
    [][last'.op \in {"Apply", "ApplyAgain"} =>
          /\ TreeOf(heap', t') = TreeOf(heap, t)
          /\ Hash(heap', t') = Hash(heap, t)
          /\ Hash64With(heap', t', <<>>) = Hash64With(heap, t, <<>>)]_vars

\* C12 witness: Apply has returned a node after it has compiled the
\* condition of a Key of t and has kept the compiled form on the Key.
C12_Witness ==
    /\ Applied
    /\ out[2] \notin Reach(heap, t)
    /\ \E k \in Reach(heap, t) : heap[k].kind = "Key" /\ heap[k].condition # NoCondition

\* C13: a successful Insert on the tree that Apply(t, v) has returned
\* leaves t as it was.
C13_ResultSharesNothing ==
    (last.op = "InsertResult" /\ last.err = NoErr) => TreeOf(heap, t) = prev.t

\* The errors of the kind BadCondition.
BadCondition == {ErrConditionType, ErrInvalidCondition, ErrConditionEval}

\* The Dict d has a Key named condition whose value is neither a BoolVal
\* nor a StrVal.
HasBadCondition(h, d) ==
    \E i \in 1..Len(h[d].value) :
        /\ KindOf(h, h[d].value[i]) = "Key"
        /\ h[h[d].value[i]].name = conditionKey
        /\ KindOf(h, h[h[d].value[i]].value) \notin {"BoolVal", "StrVal"}

\* C14: Apply of a Mapping whose condition is neither a BoolValue nor a
\* StrValue (nil included) returns a BadCondition error: it returns no node
\* and does not panic.
C14_BadConditionIsAnError ==
    (/\ last.op \in {"Apply", "ApplyAgain"}
     /\ KindOf(heap, last.node) = "Dict"
     /\ HasBadCondition(heap, last.node)) =>
        last.err \in BadCondition /\ out[2] = NIL

\* What Find(part) on the node of the given tree returns, as a tree, or
\* <<"none">> when it finds nothing.
TreeFind(tree, part) ==
    LET below == IF tree[1] = "Key" THEN tree[3] ELSE tree
    IN  CASE below[1] = "Dict" ->
               IF \E i \in 1..Len(below[2]) : below[2][i][1] = "Key" /\ below[2][i][2] = part
               THEN below[2][CHOOSE i \in 1..Len(below[2]) :
                               /\ below[2][i][1] = "Key" /\ below[2][i][2] = part
                               /\ \A j \in 1..(i - 1) : below[2][j][2] # part]
               ELSE <<"none">>
          [] below[1] = "List" ->
               IF Atoi(part).ok /\ Atoi(part).i >= 0 /\ Atoi(part).i < Len(below[2])
               THEN below[2][Atoi(part).i + 1]
               ELSE <<"none">>
          [] OTHER -> <<"none">>

RECURSIVE Reached(_, _, _)
\* Where the walk along the parts from index i on stops: the tree of the
\* last node found and the index of the first part that is not found
\* (Len(parts) + 1 when every part is found).
Reached(tree, parts, i) ==
    IF i > Len(parts) \/ tree[1] = "nil" \/ TreeFind(tree, parts[i]) = <<"none">>
    THEN [cur |-> tree, i |-> i]
    ELSE Reached(TreeFind(tree, parts[i]), parts, i + 1)

\* The walk along the selector stops at a KeyedEntry that holds a Sequence,
\* at a part that is no number.
AddressesListByName(tree, to) ==
    LET r == Reached(tree, splitPath(to), 1)
    IN  /\ r.i <= Len(splitPath(to))
        /\ r.cur[1] = "Key" /\ r.cur[3][1] = "List"
        /\ ~Atoi(splitPath(to)[r.i]).ok

\* C15: an Insert whose selector addresses a Sequence by a component that
\* is no number returns an error and leaves the tree as it was.
C15_NonNumericIndexIsAnError ==
    (last.op = "Insert" /\ AddressesListByName(prev.t, last.sel)) =>
        last.err # NoErr /\ TreeOf(heap, t) = prev.t

\* The walk along the selector must go below a KeyedEntry whose value is a
\* scalar or nil.
DescendsBelowLeaf(tree, to) ==
    LET r == Reached(tree, splitPath(to), 1)
    IN  /\ r.i <= Len(splitPath(to))
        /\ r.cur[1] = "Key" /\ r.cur[3][1] \in ScalarKinds \cup {"nil"}

\* The walk along the selector ends at a node that is no KeyedEntry: at the
\* root for the empty selector, or at an element of a Sequence, present or
\* not.
EndsOffKey(tree, to) ==
    LET r == Reached(tree, splitPath(to), 1)
    IN  \/ r.i = Len(splitPath(to)) + 1 /\ r.cur[1] # "Key"
        \/ /\ r.i = Len(splitPath(to))
           /\ r.cur[1] = "Key" /\ r.cur[3][1] = "List"

\* C16: an Insert whose path must go below a KeyedEntry that holds a scalar
\* or nil, or whose path ends at a node that is no KeyedEntry, returns an
\* error.
C16_InsertUnderLeafIsAnError ==
    (/\ last.op \in {"Insert", "InsertAgain"}
     /\ DescendsBelowLeaf(prev.t, last.sel) \/ EndsOffKey(prev.t, last.sel)) =>
        last.err \notin {NoErr, ErrPanic}

\* C16 witness: an Insert at a selector that goes below a KeyedEntry whose
\* value is nil has returned the error of Insert's walk.
C16_Witness ==
    /\ last.op = "Insert"
    /\ DescendsBelowLeaf(prev.t, last.sel)
    /\ Reached(prev.t, splitPath(last.sel), 1).cur[3] = <<"nil">>
    /\ last.err = ErrExpectingCollection
    /\ TreeOf(heap, t) = prev.t

\* The Key children of the Dict are in strictly ascending order of name.
KeysAscending(d) ==
    \A i, j \in 1..Len(d[2]) :
        (i < j /\ d[2][i][1] = "Key" /\ d[2][j][1] = "Key") => StrLess(d[2][i][2], d[2][j][2])

AllKeysAscending(tree) == \A d \in DictsOf(tree) : KeysAscending(d)

\* C17: when every Mapping of t and of the inserted node is sorted
\* ascending by key name, every Mapping of t is sorted again after a
\* successful Insert, whatever the node's variant is.
C17_InsertKeepsOrder ==
    (/\ last.op \in {"Insert", "InsertAgain"} /\ last.err = NoErr
     /\ AllKeysAscending(prev.t)
     /\ AllKeysAscending(TreeOf(heap, last.node))) =>
        AllKeysAscending(TreeOf(heap, t))

\* C17 witness: a successful Insert has put a KeyedEntry before an entry
\* that its Mapping held already.
C17_Witness ==
    /\ last.op = "Insert" /\ last.err = NoErr
    /\ KindOf(heap, last.node) = "Key"
    /\ AllKeysAscending(prev.t)
    /\ \E d \in DictsOf(TreeOf(heap, t)) :
          /\ Len(d[2]) >= 2
          /\ d[2][1] = TreeOf(heap, last.node)
          /\ d[2][2] \in SubTrees(prev.t)

\* Both hashes of both trees are computed without a panic.
BothHashed ==
    /\ t # NIL /\ c # NIL /\ last.err # ErrPanic
    /\ ~Hash(heap, t).panic /\ ~Hash(heap, c).panic
    /\ ~Equal(heap, t, c).panic

\* C18: for two trees, the bytes fed to the fast digest are equal iff the
\* strong hashes (SHA-256 taken as collision-free) are equal, so Equal holds
\* iff the strong hashes are equal.
C18_HashesAgree ==
    BothHashed =>
        /\ (Hash64With(heap, t, <<>>).bytes = Hash64With(heap, c, <<>>).bytes) <=>
               (Hash(heap, t).bytes = Hash(heap, c).bytes)
        /\ Equal(heap, t, c).equal <=> (Hash(heap, t).bytes = Hash(heap, c).bytes)

\* The Key k holds the node: as its value, or, for a Key node, as a child
\* of the Dict that is its value.
Holds(h, k, node) ==
    IF KindOf(h, node) = "Key"
    THEN /\ KindOf(h, h[k].value) = "Dict"
         /\ \E i \in 1..Len(h[h[k].value].value) : h[h[k].value].value[i] = node
    ELSE h[k].value = node

\* C19: after a successful Insert(t, node, s) with a non-empty selector,
\* Lookup(t, s) succeeds and returns a KeyedEntry that holds the node: as
\* its value for a Mapping, Sequence or scalar node, in the Mapping that is
\* its value for a KeyedEntry node.
C19_LookupFindsInserted ==
    (/\ last.op \in {"Insert", "InsertAgain"} /\ last.err = NoErr
     /\ last.sel # <<>>) =>
        LET r == Lookup(heap, Root(last.tree), last.sel)
        IN  /\ ~r.panic /\ r.ok
            /\ KindOf(heap, r.n) = "Key"
            /\ Holds(heap, r.n, last.node)

RECURSIVE Preorder(_, _)
RECURSIVE PreorderOfNodes(_, _, _)

PreorderOfNodes(h, nodes, i) ==
    IF i > Len(nodes) THEN <<>>
    ELSE Preorder(h, nodes[i]) \o PreorderOfNodes(h, nodes, i + 1)

\* The nodes at and below n, in preorder.
Preorder(h, n) ==
    IF n = NIL THEN <<>>
    ELSE <<n>> \o
         CASE h[n].kind \in {"Dict", "List"} -> PreorderOfNodes(h, h[n].value, 1)
           [] h[n].kind = "Key" -> Preorder(h, h[n].value)
           [] OTHER -> <<>>

\* The entries of a processor list; nil has none.
Entries(p) == IF p = NoProcessors THEN <<>> ELSE p[2]

\* The entries of the first non-empty list attached in the subtree of n.
FirstNonEmpty(h, n) ==
    LET pre == Preorder(h, n)
        at  == {i \in 1..Len(pre) : Entries(h[pre[i]].processors) # <<>>}
    IN  IF at = {} THEN <<>>
        ELSE Entries(h[pre[CHOOSE i \in at : \A j \in at : i <= j]].processors)

\* C20: Processors() on a node returns the attached list of the first node
\* of its subtree, in preorder, whose list has entries, and an empty list
\* when there is none; an attached list of no entries does not stop the
\* search.
C20_FirstNonEmptyProcessors ==
    (last.op = "Processors" /\ last.err = NoErr) =>
        Entries(out[2]) = FirstNonEmpty(heap, last.node)

\* Apply of the i-th child of the List l.
ChildApplied(h, l, i, vs) == Apply(h, h[l].value[i], vs)

\* The children of the List l whose Apply returns a node, in their order.
KeptChildren(h, l, vs) ==
    SelectSeq(h[l].value, LAMBDA e : e # NIL /\ Apply(h, e, vs).n # NIL)

\* The indexes of the children of the List l whose Apply fails.
FailingChildren(h, l, vs) ==
    {i \in 1..Len(h[l].value) :
        h[l].value[i] # NIL /\ ChildApplied(h, l, i, vs).err # NoErr}

\* Apply of a List has just been called.
AppliedList ==
    last.op \in {"Apply", "ApplyAgain"} /\ KindOf(heap, last.node) = "List"

\* C21: Apply of a Sequence returns, when no child fails, a new Sequence of
\* the applied children that are not absent, in their order, and, when a
\* child fails, the error of the first failing child and no node.
C21_ListApply ==
    AppliedList =>
        LET l    == last.node
            vs   == out[3]
            fail == FailingChildren(heap, l, vs)
            kept == KeptChildren(heap, l, vs)
        IN  IF fail = {}
            THEN /\ last.err = NoErr
                 /\ out[2] # NIL /\ out[2] # l /\ KindOf(heap, out[2]) = "List"
                 /\ Len(heap[out[2]].value) = Len(kept)
                 /\ \A i \in 1..Len(kept) :
                       TreeOf(heap, heap[out[2]].value[i])
                         = With(Apply(heap, kept[i], vs), LAMBDA r : TreeOf(r.h, r.n))
            ELSE /\ last.err # ErrPanic
                 /\ last.err = ChildApplied(heap, l,
                                   CHOOSE i \in fail : \A j \in fail : i <= j, vs).err
                 /\ out[2] = NIL

RECURSIVE Callbacks(_)
RECURSIVE CallbacksOfChildren(_, _)

\* The callbacks for the children of a Mapping or Sequence from the i-th on:
\* OnKey for a KeyedEntry, Visitor, the callbacks of the value, OnValue.
CallbacksOfChildren(children, i) ==
    IF i > Len(children) THEN <<>>
    ELSE (IF children[i][1] = "Key"
          THEN << <<"OnKey", children[i][2]>>, <<"Visitor">> >>
                  \o Callbacks(children[i][3])
          ELSE << <<"Visitor">> >> \o Callbacks(children[i]))
         \o << <<"OnValue">> >> \o CallbacksOfChildren(children, i + 1)

\* The callbacks that the claim prescribes for a tree.
Callbacks(tree) ==
    CASE tree[1] = "Dict" ->
            << <<"OnDict">> >> \o CallbacksOfChildren(tree[2], 1) \o << <<"OnComplete">> >>
      [] tree[1] = "List" ->
            << <<"OnList">> >> \o CallbacksOfChildren(tree[2], 1) \o << <<"OnComplete">> >>
      [] tree[1] = "StrVal"   -> << <<"OnStr", tree[2]>> >>
      [] tree[1] = "IntVal"   -> << <<"OnInt", tree[2]>> >>
      [] tree[1] = "UIntVal"  -> << <<"OnUInt", tree[2]>> >>
      [] tree[1] = "BoolVal"  -> << <<"OnBool", tree[2]>> >>
      [] tree[1] = "FloatVal" -> << <<"OnFloat", tree[2]>> >>
      [] OTHER -> <<>>

\* The number of the calls of the given name.
CountCalls(calls, name) == Cardinality({i \in 1..Len(calls) : calls[i][1] = name})

\* C22: Accept makes its callbacks in child order: for a Mapping OnDict,
\* then for each KeyedEntry OnKey(name), Visitor, the callbacks of the value
\* and OnValue (also for an absent value), then OnComplete once; for a
\* Sequence the same without OnKey.
C22_VisitorOrder ==
    last.op = "Accept" =>
        /\ last.err = NoErr
        /\ out[2] = Callbacks(TreeOf(heap, t))
        /\ CountCalls(out[2], "OnComplete")
              = CountCalls(out[2], "OnDict") + CountCalls(out[2], "OnList")
        /\ CountCalls(out[2], "OnValue") = CountCalls(out[2], "Visitor")

\* C22 witness: Accept has visited a Mapping of two KeyedEntries, one of
\* them with an absent value, and a Sequence.
C22_Witness ==
    /\ last.op = "Accept" /\ last.err = NoErr
    /\ Len(heap[t].value) = 2
    /\ \E i \in 1..2 : heap[heap[t].value[i]].value = NIL
    /\ CountCalls(out[2], "OnList") > 0
    /\ out[2][Len(out[2])] = <<"OnComplete">>

\* C23: when Insert returns an error, every Mapping and Sequence of t has
\* the children it had before the call: nothing created during the path
\* walk remains.
C23_InsertAllOrNothing ==
    (/\ last.op \in {"Insert", "InsertAgain"} /\ last.tree = "t"
     /\ last.err # NoErr /\ last.err # ErrPanic) =>
        TreeOf(heap, t) = prev.t

====
